---- MODULE Spec2Model ----
(***************************************************************************)
(* Model of the Monte Carlo sampling code of nqs_playground:               *)
(*   monte_carlo.py : SamplingOptions, sample_some, sample_using_metropolis,*)
(*                    metropolis_process, _prepare_initial_state           *)
(*   swo.py         : Runner.monte_carlo (the caller of sample_some)       *)
(*                                                                         *)
(* Numbers.  Spin configurations are the integers 0..MaxState.  Norms are  *)
(* naturals.  Log-amplitudes and log-probabilities are integers in units   *)
(* of ln 2, so that exp(x) is 2^x exactly and every comparison of the code *)
(* is decided in integer arithmetic.  A uniform draw of [0,1) is k/UDen    *)
(* with k in 0..UDen-1.  Floating point quotients keep their IEEE special  *)
(* cases: x/0 is NaN for x = 0 and +Inf for x > 0.                         *)
(***************************************************************************)
EXTENDS Integers, Sequences, FiniteSets, TLC

\* ---- bounds of the model ------------------------------------------------
MaxSamples == 3
MaxChains == 2
MaxDiscarded == 1
MaxSweep == 2
MaxState == 2
UDen == 4

VARIABLES
    pc,            \* position of the program
    args,          \* arguments of SamplingOptions(...), <<>> before the call
    opts,          \* the SamplingOptions object, <<>> when there is none
    err,           \* the exception that ended the program (NoError when none)
    call,          \* the sample_some call: <<>> or <<[entry, mode, is_log_prob_fn]>>
    doublings,     \* number of "x *= 2" wrappers around the amplitude network
    evaluated,     \* TRUE once log_prob_fn has been evaluated
    current_norm,  \* metropolis_process: current_norm, per chain
    states,        \* metropolis_process: states[i][chain]
    log_probs,     \* metropolis_process: log_probs[i][chain]
    cur,           \* index of the slot current_state / current_log_prob view
    accepted,      \* metropolis_process: accepted, per chain
    phase,         \* "none", "therm" or "prod"
    i,             \* loop index of the running for-loop over sweeps
    j,             \* loop index inside sweep()
    proposed,      \* sweep(): proposed_state per chain (<<>> outside a step)
    u,             \* sweep(): numerators of torch.rand per chain (<<>> outside)
    acceptance,    \* returned per-chain acceptance (<<>> before the return)
    info,          \* returned info["acceptance_rate"] (<<>> before the return)
    totalSteps,    \* history: elementary steps executed so far
    trace,         \* history: chain position at every sweep boundary >= number_discarded
    prodAccepted,  \* history: acceptances made in production sweeps, per chain
    firstRun,      \* result of an earlier run in the same process, <<>> if none
    \* Runner (swo.py)
    rpc,           \* position of run() / Runner.step()
    epochs,        \* config.epochs
    sampling_method, \* config.sampling_method
    loopI,         \* the loop variable i of run()
    iteration,     \* Runner._iteration
    params,        \* parameter versions of the amplitude and the sign model
    files,         \* the checkpoint files, by <<directory, name>>
    events,        \* history: the phases completed, in order
    scalars,       \* tb_writer scalars autocorr_time/*: [tag, step, value]
    warnings,      \* logger.warning calls about tau: [tag, step]
    raisedIn,      \* phase whose exception ended the run, "" when none
    \* _auto_window / integrated_autocorr_time (monte_carlo.py)
    wpc,           \* position of the call
    acf,           \* per-chain autocorrelation functions, <<>> for a direct call
    taus,          \* the taus array (numerators over tausDen)
    tausDen,       \* common denominator of taus
    cArg,          \* the argument c
    window,        \* result of _auto_window
    tauOut,        \* result of integrated_autocorr_time, <<>> when none
    \* _prepare_initial_state (monte_carlo.py)
    ppc,           \* position of the call
    batch_size,    \* the argument batch_size
    attempt,       \* iterations of the generation loop done so far
    reps,          \* the local set `states` of representatives
    batch,         \* the returned batch, <<>> when none
    perr,          \* the exception raised (NoError when none)
    \* log_apply (hamiltonian.py)
    lpc,           \* position of the call
    laArgs,        \* the arguments [batch_size, debug]
    laCxx,         \* log_h_psi, the accelerated result
    laPy,          \* _log_h_psi_py, the reference result, <<>> if never evaluated
    laReported,    \* the logger.error calls: [index, cxx, py]
    laErr,         \* the exception raised (NoError when none)
    \* metropolis_process, aliasing
    callerWritten, \* TRUE once a write went into the caller's initial_state tensor
    \* ManualTrainer._internal_train (swo.py)
    tpc,           \* position of the call
    target,        \* Target.AMPLITUDE or Target.SIGN
    max_epochs,    \* config.max_epochs
    epoch,         \* the loop variable epoch
    passes,        \* calls of _run_once_on_dataset so far
    evals,         \* history: the evaluations made: [epoch, passes, accuracy]
    \* heisenberg_interaction (hamiltonian.py)
    hpc,           \* position of the call
    hArgs,         \* the arguments [edges, coupling, sign_rule]
    interaction,   \* the Interaction built: <<>> or <<[matrix, edges]>>
    \* safe_exp (monte_carlo.py)
    epc,           \* position of the call
    xCaller,       \* the caller's tensor
    xGiven,        \* history: the content of the caller's tensor at the call
    normalise,     \* the argument normalise
    exponents,     \* history: the arguments exp was evaluated at
    expOut,        \* the result: <<>> or <<[num, den]>>
    \* _MeanVarMetric (swo.py)
    mpc,           \* position: "ready" between calls, "computed" after compute
    metric_n,      \* self._n
    metric_mu,     \* self._mu
    metric_M2,     \* self._M2
    updates,       \* history: the values given to update since reset
    computed,      \* the result of compute: <<>> or <<mean, variance, sample variance>>
    \* _random_spin_configuration (monte_carlo.py)
    spc,           \* position of the call
    spinArgs,      \* the arguments [n, hamming_weight]
    support,       \* history: the values the random draw could give
    spin,          \* the result: <<>> or <<integer>>
    spinErr        \* the exception raised (NoError when none)

samplerVars == <<pc, args, opts, err, call, doublings, evaluated, current_norm, states,
                 log_probs, cur, accepted, phase, i, j, proposed, u, acceptance, info,
                 totalSteps, trace, prodAccepted, firstRun, callerWritten>>
runnerVars == <<rpc, epochs, sampling_method, loopI, iteration, params, files, events,
                scalars, warnings, raisedIn>>
windowVars == <<wpc, acf, taus, tausDen, cArg, window, tauOut>>
prepareVars == <<ppc, batch_size, attempt, reps, batch, perr>>
applyVars == <<lpc, laArgs, laCxx, laPy, laReported, laErr>>
trainerVars == <<tpc, target, max_epochs, epoch, passes, evals>>
heisenbergVars == <<hpc, hArgs, interaction>>
expVars == <<epc, xCaller, xGiven, normalise, exponents, expOut>>
metricVars == <<mpc, metric_n, metric_mu, metric_M2, updates, computed>>
spinVars == <<spc, spinArgs, support, spin, spinErr>>

\* the small functions, each run by a specification of its own
functionVars == <<trainerVars, heisenbergVars, expVars, metricVars, spinVars>>

vars == <<samplerVars, runnerVars, windowVars, prepareVars, applyVars, functionVars>>

\* the variables the sampler's actions leave alone
otherVars == <<runnerVars, windowVars, prepareVars, applyVars, functionVars>>

optVars == <<args, opts>>
callVars == <<call, doublings>>
chainVars == <<current_norm, states, log_probs, cur, accepted>>
loopVars == <<phase, i, j>>
stepVars == <<proposed, u>>
outVars == <<acceptance, info>>
histVars == <<totalSteps, trace, prodAccepted>>

\* an exception: its type, its message and, for the message of sample_some,
\* the set of modes the message lists as supported
Error(type, what) == [type |-> type, what |-> what, supported |-> {}]
NoError == Error("", "")

\* ---- the parts of the program that a specification does not run ---------
RunnerIdle ==
    /\ rpc = "idle"
    /\ epochs = 0
    /\ sampling_method = ""
    /\ loopI = 0
    /\ iteration = 0
    /\ params = [amplitude |-> 0, sign |-> 0]
    /\ files = {}
    /\ events = <<>>
    /\ scalars = {}
    /\ warnings = {}
    /\ raisedIn = ""

WindowIdle ==
    /\ wpc = "idle"
    /\ acf = <<>>
    /\ taus = <<>>
    /\ tausDen = 1
    /\ cArg = 0
    /\ window = 0
    /\ tauOut = <<>>

PrepareIdle ==
    /\ ppc = "idle"
    /\ batch_size = 0
    /\ attempt = 0
    /\ reps = {}
    /\ batch = <<>>
    /\ perr = NoError

ApplyIdle ==
    /\ lpc = "idle"
    /\ laArgs = <<>>
    /\ laCxx = <<>>
    /\ laPy = <<>>
    /\ laReported = {}
    /\ laErr = NoError

TrainerIdle ==
    /\ tpc = "idle"
    /\ target = ""
    /\ max_epochs = 0
    /\ epoch = 0
    /\ passes = 0
    /\ evals = <<>>

HeisenbergIdle ==
    /\ hpc = "idle"
    /\ hArgs = <<>>
    /\ interaction = <<>>

ExpIdle ==
    /\ epc = "idle"
    /\ xCaller = <<>>
    /\ xGiven = <<>>
    /\ normalise = FALSE
    /\ exponents = <<>>
    /\ expOut = <<>>

MetricIdle ==
    /\ mpc = "idle"
    /\ metric_n = 0
    /\ metric_mu = <<>>
    /\ metric_M2 = <<>>
    /\ updates = <<>>
    /\ computed = <<>>

SpinIdle ==
    /\ spc = "idle"
    /\ spinArgs = <<>>
    /\ support = {}
    /\ spin = <<>>
    /\ spinErr = NoError

FunctionsIdle ==
    /\ TrainerIdle
    /\ HeisenbergIdle
    /\ ExpIdle
    /\ MetricIdle
    /\ SpinIdle

\* ---- the external collaborators ------------------------------------------
States == 0..MaxState

\* content of a tensor cell that new_empty allocated and nothing wrote yet
Uninit == 0 - 1

\* basis.norm / the norm MetropolisKernel returns: a function of the state;
\* 0 for a configuration outside the symmetry sector
NormOf(s) == IF s = 0 THEN 0 ELSE 1 + (s % 2)

\* the amplitude network in eval mode: log-amplitude of a configuration
LogAmp(s) == s \div 2

RECURSIVE Pow2(_)
Pow2(n) == IF n <= 0 THEN 1 ELSE 2 * Pow2(n - 1)

\* ---- SamplingOptions.__init__ --------------------------------------------
ArgInts(max) == (0 - 1)..max
DiscardedArgs == {<<>>} \cup {<<k>> : k \in ArgInts(MaxDiscarded)}


\* OptionsError with "number_discarded < 0" as the discarded check
OptionsErrorZeroAllowed(ns, nc, nd, ss) ==
    IF ns <= 0 THEN Error("ValueError", "negative number_samples")
    ELSE IF nc <= 0 THEN Error("ValueError", "negative number_chains")
    ELSE IF nd # <<>> /\ nd[1] < 0 THEN Error("ValueError", "invalid number_discarded")
    ELSE IF ss <= 0 THEN Error("ValueError", "negative sweep_size")
    ELSE NoError

\* the first check of __init__ that raises, NoError when none does
OptionsError(ns, nc, nd, ss) ==
    IF ns <= 0 THEN Error("ValueError", "negative number_samples")
    ELSE IF nc <= 0 THEN Error("ValueError", "negative number_chains")
    ELSE IF nd # <<>> /\ nd[1] <= 0 THEN Error("ValueError", "invalid number_discarded")
    ELSE IF ss <= 0 THEN Error("ValueError", "negative sweep_size")
    ELSE NoError

OptionsObject(ns, nc, nd, ss) ==
    [number_samples |-> ns,
     number_chains |-> nc,
     number_discarded |-> IF nd # <<>> THEN nd[1] ELSE ns \div 10,
     sweep_size |-> ss]

Construct ==
    /\ pc = "start"
    /\ \E ns \in ArgInts(MaxSamples), nc \in ArgInts(MaxChains),
          nd \in DiscardedArgs, ss \in ArgInts(MaxSweep) :
        /\ args' = <<[number_samples |-> ns, number_chains |-> nc,
                      number_discarded |-> nd, sweep_size |-> ss]>>
        /\ err' = OptionsError(ns, nc, nd, ss)
        /\ IF OptionsError(ns, nc, nd, ss) = NoError
           THEN opts' = <<OptionsObject(ns, nc, nd, ss)>> /\ pc' = "constructed"
           ELSE opts' = <<>> /\ pc' = "raised"
    /\ UNCHANGED <<callVars, evaluated, chainVars, loopVars, stepVars, outVars,
                   histVars, firstRun>>
    /\ UNCHANGED otherVars
    /\ UNCHANGED callerWritten

\* ---- sample_some and its callers -----------------------------------------
Modes == {"exact", "metropolis", "zanella", "gibbs"}

\* the set the error message of sample_some calls "supported"
SupportedInMessage == {"exact", "metropolis", "zanella"}

\* sample_some: the number of doublings in the log_prob_fn handed to the
\* sampler, given the number already inside the log_psi it received
SampleSomeWraps(inner, is_log_prob_fn) ==
    IF is_log_prob_fn THEN inner ELSE inner + 1

\* Runner.monte_carlo: its local log_prob_fn doubles self.amplitude once
RunnerWraps == 1

\* the log-probability function the sampler evaluates: d doublings of the
\* amplitude network's output
LogProbFn(d, s) == Pow2(d) * LogAmp(s)

\* sample_some after log_prob_fn is built: the dispatch on mode.
\* sample_exactly raises NameError at its forward pass (the name xs is not
\* defined) before log_prob_fn is called.
Dispatch(mode) ==
    IF mode = "exact"
    THEN /\ pc' = "raised"
         /\ err' = Error("NameError", "name 'xs' is not defined")
    ELSE IF mode = "metropolis"
    THEN /\ pc' = "prepare"
         /\ err' = err
    ELSE /\ pc' = "raised"
         /\ err' = [type |-> "ValueError", what |-> "invalid mode",
                    supported |-> SupportedInMessage]

\* Runner.monte_carlo up to and including its call of sample_some
RunnerMonteCarlo ==
    /\ pc = "constructed"
    /\ \E method \in Modes :
        /\ call' = <<[entry |-> "runner", mode |-> method, is_log_prob_fn |-> FALSE]>>
        /\ doublings' = SampleSomeWraps(RunnerWraps, FALSE)
        /\ Dispatch(method)
    /\ UNCHANGED <<optVars, evaluated, chainVars, loopVars, stepVars, outVars,
                   histVars, firstRun>>
    /\ UNCHANGED otherVars
    /\ UNCHANGED callerWritten

\* a direct call of sample_some: with is_log_prob_fn the caller passes a
\* log-probability (the amplitude doubled once), without it the amplitude
SampleSome ==
    /\ pc = "constructed"
    /\ \E mode \in Modes, is_log_prob_fn \in BOOLEAN :
        /\ call' = <<[entry |-> "direct", mode |-> mode,
                      is_log_prob_fn |-> is_log_prob_fn]>>
        /\ doublings' = SampleSomeWraps(IF is_log_prob_fn THEN 1 ELSE 0, is_log_prob_fn)
        /\ Dispatch(mode)
    /\ UNCHANGED <<optVars, evaluated, chainVars, loopVars, stepVars, outVars,
                   histVars, firstRun>>
    /\ UNCHANGED otherVars
    /\ UNCHANGED callerWritten

\* ---- sample_using_metropolis / metropolis_process ------------------------
O == opts[1]
Chains == 1..O.number_chains

Row(x) == [c \in Chains |-> x]

Snapshot(st, lp) == [steps |-> totalSteps', state |-> st, log_prob |-> lp]

\* _prepare_initial_state: `found` is the set of representatives the
\* generation loop collected; fewer than batch_size raises, otherwise
\* batch_size distinct members are picked.  Then basis.norm, and
\* metropolis_process down to "current_log_prob = log_probs[0]".
SampleUsingMetropolis ==
    /\ pc = "prepare"
    /\ \E found \in (SUBSET States) \ {{}} :
        IF Cardinality(found) < O.number_chains
        THEN /\ pc' = "raised"
             /\ err' = Error("RuntimeError", "failed to generate enough different spin configurations")
             /\ UNCHANGED <<evaluated, chainVars, loopVars, histVars>>
        ELSE \E initial_state \in [Chains -> found] :
             /\ \A c, d \in Chains : c # d => initial_state[c] # initial_state[d]
             /\ LET lp == [c \in Chains |-> LogProbFn(doublings, initial_state[c])]
                IN  /\ current_norm' = [c \in Chains |-> NormOf(initial_state[c])]
                    /\ states' = [k \in 1..O.number_samples |->
                                     IF k = 1 THEN initial_state ELSE Row(Uninit)]
                    /\ log_probs' = [k \in 1..O.number_samples |->
                                     IF k = 1 THEN lp ELSE Row(Uninit)]
                    /\ totalSteps' = 0
                    /\ trace' = IF O.number_discarded = 0
                                THEN <<Snapshot(initial_state, lp)>> ELSE <<>>
             /\ evaluated' = TRUE
             /\ cur' = 0
             /\ accepted' = Row(0)
             /\ prodAccepted' = Row(0)
             /\ phase' = "therm"
             /\ i' = 0
             /\ j' = 0
             /\ pc' = "loop"
             /\ err' = err
    /\ UNCHANGED <<optVars, callVars, stepVars, outVars, firstRun>>
    /\ UNCHANGED otherVars
    /\ UNCHANGED callerWritten

\* "for i in range(number_discarded): sweep()": entering sweep()
ThermSweep ==
    /\ pc = "loop" /\ phase = "therm"
    /\ i < O.number_discarded
    /\ pc' = "propose"
    /\ j' = 0
    /\ UNCHANGED <<optVars, err, callVars, evaluated, chainVars, phase, i, stepVars,
                   outVars, histVars, firstRun>>
    /\ UNCHANGED otherVars
    /\ UNCHANGED callerWritten

\* ResetCount without the fill_: the thermalisation count is kept
ResetCountKept == accepted

\* the value of `accepted` after "accepted.fill_(0)"
ResetCount == Row(0)

\* the thermalisation loop is over: accepted.fill_(0), and the production
\* loop "for i in range(1, number_samples)" starts
ResetAccepted ==
    /\ pc = "loop" /\ phase = "therm"
    /\ i >= O.number_discarded
    /\ accepted' = ResetCount
    /\ phase' = "prod"
    /\ i' = 1
    /\ UNCHANGED <<pc, optVars, err, callVars, evaluated, current_norm, states,
                   log_probs, cur, j, stepVars, outVars, histVars, firstRun>>
    /\ UNCHANGED otherVars
    /\ UNCHANGED callerWritten

\* ReboundSlot without the rebinding: the views stay on the old slot
ReboundSlotStale == cur

\* the slot current_state / current_log_prob view after the rebinding
\* "current_state = states[i]; current_log_prob = log_probs[i]"
ReboundSlot == i

\* production loop body up to the call of sweep(): copy the chain position
\* into slot i and make that slot the current one
ProdSweep ==
    /\ pc = "loop" /\ phase = "prod"
    /\ i < O.number_samples
    /\ states' = [states EXCEPT ![i + 1] = states[cur + 1]]
    /\ log_probs' = [log_probs EXCEPT ![i + 1] = log_probs[cur + 1]]
    /\ cur' = ReboundSlot
    /\ pc' = "propose"
    /\ j' = 0
    /\ UNCHANGED <<optVars, err, callVars, evaluated, current_norm, accepted, phase,
                   i, stepVars, outVars, histVars, firstRun>>
    /\ UNCHANGED otherVars
    /\ UNCHANGED callerWritten

\* sweep(), first half of an elementary step: the kernel proposes a
\* configuration per chain and torch.rand draws a uniform number per chain
Propose ==
    /\ pc = "propose"
    /\ proposed' \in [Chains -> States]
    /\ u' \in [Chains -> 0..(UDen - 1)]
    /\ pc' = "decide"
    /\ UNCHANGED <<optVars, err, callVars, evaluated, chainVars, loopVars, outVars,
                   histVars, firstRun>>
    /\ UNCHANGED otherVars
    /\ UNCHANGED callerWritten

\* Float with 0/0 = +Inf instead of NaN
FloatZeroByZeroInf(num, den) ==
    IF den # 0 THEN [kind |-> "num", num |-> num, den |-> den]
    ELSE [kind |-> "inf", num |-> 0, den |-> 0]

\* IEEE quotient of two non-negative numbers, as a tagged fraction
Float(num, den) ==
    IF den # 0 THEN [kind |-> "num", num |-> num, den |-> den]
    ELSE IF num = 0 THEN [kind |-> "nan", num |-> 0, den |-> 0]
    ELSE [kind |-> "inf", num |-> 0, den |-> 0]

\* exp(d) for a log-probability difference d
Exp(d) == IF d >= 0 THEN Float(Pow2(d), 1) ELSE Float(1, Pow2(0 - d))

\* r <= e for r possibly NaN or +Inf and e finite
FloatLe(r, e) == r.kind = "num" /\ r.num * e.den <= e.num * r.den

proposed_norm == [c \in Chains |-> NormOf(proposed[c])]
proposed_log_prob == [c \in Chains |-> LogProbFn(doublings, proposed[c])]
current_state == states[cur + 1]
current_log_prob == log_probs[cur + 1]

\* R with the first chain's current norm used for every chain
RFirstChainNorm ==
    [c \in Chains |-> Float(u[c] * proposed_norm[c], UDen * current_norm[1])]

\* r = torch.rand(...) * proposed_norm / current_norm
R == [c \in Chains |-> Float(u[c] * proposed_norm[c], UDen * current_norm[c])]

\* T without the test of proposed_norm
TIgnoresNorm ==
    [c \in Chains |-> FloatLe(R[c], Exp(proposed_log_prob[c] - current_log_prob[c]))]

\* t = (proposed_norm > 0) & (r <= torch.exp(proposed_log_prob - current_log_prob))
T == [c \in Chains |->
        /\ proposed_norm[c] > 0
        /\ FloatLe(R[c], Exp(proposed_log_prob[c] - current_log_prob[c]))]

\* current_state[t] = proposed_state[t]
MaskedState == [c \in Chains |-> IF T[c] THEN proposed[c] ELSE current_state[c]]
\* current_log_prob[t] = proposed_log_prob[t]
MaskedLogProb == [c \in Chains |-> IF T[c] THEN proposed_log_prob[c] ELSE current_log_prob[c]]
\* MaskedNorm without the mask: every chain takes the proposed norm
UnmaskedNorm == proposed_norm

\* current_norm[t] = proposed_norm[t]
MaskedNorm == [c \in Chains |-> IF T[c] THEN proposed_norm[c] ELSE current_norm[c]]
\* accepted += t
Counted == [c \in Chains |-> accepted[c] + (IF T[c] THEN 1 ELSE 0)]

\* CurrentStateBase without the rebinding: the name stays on the caller's tensor
CurrentStateBaseCaller == "initial_state"

\* the tensor current_state is a view of, after "states[0].copy_(current_state);
\* current_state = states[0]"
CurrentStateBase == "states"

\* sweep(), second half of an elementary step; after the last step of the
\* sweep the enclosing for-loop advances
Decide ==
    /\ pc = "decide"
    /\ states' = [states EXCEPT ![cur + 1] = MaskedState]
    /\ log_probs' = [log_probs EXCEPT ![cur + 1] = MaskedLogProb]
    /\ current_norm' = MaskedNorm
    /\ accepted' = Counted
    /\ proposed' = <<>>
    /\ u' = <<>>
    /\ totalSteps' = totalSteps + 1
    /\ prodAccepted' = [c \in Chains |->
                          prodAccepted[c] + (IF phase = "prod" /\ T[c] THEN 1 ELSE 0)]
    /\ IF j + 1 < O.sweep_size
       THEN /\ j' = j + 1
            /\ pc' = "propose"
            /\ UNCHANGED <<i, trace>>
       ELSE /\ j' = 0
            /\ i' = i + 1
            /\ pc' = "loop"
            /\ trace' = IF totalSteps' >= O.number_discarded * O.sweep_size
                        THEN Append(trace, Snapshot(MaskedState, MaskedLogProb))
                        ELSE trace
    /\ callerWritten' = (callerWritten \/ (CurrentStateBase = "initial_state" /\ \E c \in Chains : T[c]))
    /\ UNCHANGED <<optVars, err, callVars, evaluated, cur, phase, outVars, firstRun>>
    /\ UNCHANGED otherVars

\* RateDenominator without the "- 1"
RateDenominatorAllSamples == O.number_samples * O.sweep_size

\* the denominator of the acceptance rate
RateDenominator == (O.number_samples - 1) * O.sweep_size

RECURSIVE SumNum(_, _)
SumNum(f, n) == IF n = 0 THEN 0 ELSE f[n].num + SumNum(f, n - 1)

\* torch.mean of a tensor of quotients with a common denominator
Mean(f) ==
    IF \E c \in DOMAIN f : f[c].kind = "nan" THEN Float(0, 0)
    ELSE IF \E c \in DOMAIN f : f[c].kind = "inf" THEN Float(1, 0)
    ELSE Float(SumNum(f, Len(f)), f[1].den * Len(f))

\* the production loop is over: acceptance = accepted.double() / (...),
\* metropolis_process returns and sample_using_metropolis builds info
Finish ==
    /\ pc = "loop" /\ phase = "prod"
    /\ i >= O.number_samples
    /\ acceptance' = [c \in Chains |-> Float(accepted[c], RateDenominator)]
    /\ info' = <<Mean(acceptance')>>
    /\ pc' = "done"
    /\ UNCHANGED <<optVars, err, callVars, evaluated, chainVars, loopVars, stepVars,
                   histVars, firstRun>>
    /\ UNCHANGED otherVars
    /\ UNCHANGED callerWritten


SamplerStart ==
    /\ pc = "start"
    /\ args = <<>>
    /\ opts = <<>>
    /\ err = NoError
    /\ call = <<>>
    /\ doublings = 0
    /\ evaluated = FALSE
    /\ current_norm = <<>>
    /\ states = <<>>
    /\ log_probs = <<>>
    /\ cur = 0
    /\ accepted = <<>>
    /\ phase = "none"
    /\ i = 0
    /\ j = 0
    /\ proposed = <<>>
    /\ u = <<>>
    /\ acceptance = <<>>
    /\ info = <<>>
    /\ totalSteps = 0
    /\ trace = <<>>
    /\ prodAccepted = <<>>
    /\ firstRun = <<>>
    /\ callerWritten = FALSE

Init ==
    /\ SamplerStart
    /\ RunnerIdle
    /\ WindowIdle
    /\ PrepareIdle
    /\ ApplyIdle
    /\ FunctionsIdle

Next ==
    \/ Construct
    \/ RunnerMonteCarlo
    \/ SampleSome
    \/ SampleUsingMetropolis
    \/ ThermSweep
    \/ ResetAccepted
    \/ ProdSweep
    \/ Propose
    \/ Decide
    \/ Finish

Spec == Init /\ [][Next]_vars

\* ---- a second run in the same process ------------------------------------
\* sample_using_metropolis(log_prob_fn, basis, options) takes no seed and
\* seeds no generator: random.randint, np.random.shuffle, torch.randperm and
\* torch.rand draw from the process-wide generators.  A caller that samples
\* twice with the same arguments keeps the first result and calls again.
Rerun ==
    /\ pc = "done"
    /\ firstRun = <<>>
    /\ firstRun' = <<[states |-> states, log_probs |-> log_probs]>>
    /\ pc' = "prepare"
    /\ evaluated' = FALSE
    /\ current_norm' = <<>>
    /\ states' = <<>>
    /\ log_probs' = <<>>
    /\ cur' = 0
    /\ accepted' = <<>>
    /\ phase' = "none"
    /\ i' = 0
    /\ j' = 0
    /\ acceptance' = <<>>
    /\ info' = <<>>
    /\ totalSteps' = 0
    /\ trace' = <<>>
    /\ prodAccepted' = <<>>
    /\ UNCHANGED <<optVars, err, callVars, stepVars>>
    /\ UNCHANGED otherVars
    /\ UNCHANGED callerWritten

\* the options of the runs that are repeated: one chain, sweeps of one step
RerunOptions ==
    {OptionsObject(ns, 1, nd, 1) : ns \in 1..2, nd \in {<<>>, <<1>>}}

InitRerun ==
    /\ pc = "prepare"
    /\ \E o \in RerunOptions :
        /\ opts = <<o>>
        /\ args = <<[number_samples |-> o.number_samples, number_chains |-> 1,
                     number_discarded |-> IF o.number_discarded = 0 THEN <<>> ELSE <<1>>,
                     sweep_size |-> 1]>>
    /\ err = NoError
    /\ call = <<[entry |-> "direct", mode |-> "metropolis", is_log_prob_fn |-> FALSE]>>
    /\ doublings = 1
    /\ evaluated = FALSE
    /\ current_norm = <<>>
    /\ states = <<>>
    /\ log_probs = <<>>
    /\ cur = 0
    /\ accepted = <<>>
    /\ phase = "none"
    /\ i = 0
    /\ j = 0
    /\ proposed = <<>>
    /\ u = <<>>
    /\ acceptance = <<>>
    /\ info = <<>>
    /\ totalSteps = 0
    /\ trace = <<>>
    /\ prodAccepted = <<>>
    /\ firstRun = <<>>
    /\ callerWritten = FALSE
    /\ RunnerIdle
    /\ WindowIdle
    /\ PrepareIdle
    /\ ApplyIdle
    /\ FunctionsIdle

NextRerun ==
    \/ SampleUsingMetropolis
    \/ ThermSweep
    \/ ResetAccepted
    \/ ProdSweep
    \/ Propose
    \/ Decide
    \/ Finish
    \/ Rerun

SpecRerun == InitRerun /\ [][NextRerun]_vars

\* ---- properties -----------------------------------------------------------
Sampling == pc \in {"loop", "propose", "decide", "done"}
A == args[1]

\* C1: in every elementary step a chain accepts (its counter goes up by one;
\* otherwise it stays) exactly when proposed_norm > 0 and
\* u * proposed_norm / current_norm <= exp(proposed_log_prob - current_log_prob),
\* all four values being that chain's own.  The quotient is the IEEE one: with
\* current_norm = 0 it is NaN or +Inf and the comparison is false; otherwise
\* the inequality is decided by cross-multiplication.
C1_AcceptRule ==
    [][pc = "decide" =>
        \A c \in Chains :
            LET pn == NormOf(proposed[c])
                cn == current_norm[c]
                plp == LogProbFn(doublings, proposed[c])
                clp == log_probs[cur + 1][c]
                rule == /\ pn > 0
                        /\ cn > 0
                        /\ u[c] * pn * Pow2(clp) <= Pow2(plp) * UDen * cn
            IN  /\ rule => accepted'[c] = accepted[c] + 1
                /\ ~rule => accepted'[c] = accepted[c]
                /\ rule => states'[cur + 1][c] = proposed[c]
                /\ ~rule => states'[cur + 1][c] = states[cur + 1][c]]_vars

\* the first step of a two-chain run was taken: chain 1 accepted, chain 2 did not
C1_Witness ==
    /\ Sampling /\ phase = "therm" /\ totalSteps = 1
    /\ O.number_chains = 2
    /\ accepted[1] = 1 /\ accepted[2] = 0

\* C2: in every state of metropolis_process the stored norm and log_prob of
\* each chain are the ones produced for the chain's current state, and so
\* are the log_probs recorded with the samples already taken.
C2_TripleConsistent ==
    Sampling =>
        /\ \A c \in Chains :
            /\ current_norm[c] = NormOf(current_state[c])
            /\ current_log_prob[c] = LogProbFn(doublings, current_state[c])
        /\ \A k \in 0..cur : \A c \in Chains :
            log_probs[k + 1][c] = LogProbFn(doublings, states[k + 1][c])

\* two steps in, chain 1 has accepted both and chain 2 none, and the two
\* chains carry different norms
C2_Witness ==
    /\ Sampling /\ phase = "therm" /\ totalSteps = 2
    /\ O.number_chains = 2
    /\ accepted[1] = 2 /\ accepted[2] = 0
    /\ current_norm[1] # current_norm[2]

\* C3: at the return there are number_samples samples per chain and the
\* sample at index idx is the chain position after exactly
\* (number_discarded + idx) * sweep_size elementary steps.
C3_SamplesAtSweeps ==
    pc = "done" =>
        /\ Len(states) = O.number_samples
        /\ Len(log_probs) = O.number_samples
        /\ Len(trace) = O.number_samples
        /\ \A idx \in 0..(O.number_samples - 1) :
            /\ trace[idx + 1].steps = (O.number_discarded + idx) * O.sweep_size
            /\ states[idx + 1] = trace[idx + 1].state
            /\ log_probs[idx + 1] = trace[idx + 1].log_prob
            /\ DOMAIN states[idx + 1] = Chains

\* a run with thermalisation returned three samples that differ from one
\* another
C3_Witness ==
    /\ pc = "done"
    /\ O.number_samples = 3 /\ O.number_discarded = 1 /\ O.sweep_size = 2
    /\ states[1] # states[2] /\ states[2] # states[3] /\ states[1] # states[3]

\* C4: when the production phase begins every acceptance counter is 0, and
\* from then on the counters equal the acceptances made in production sweeps.
C4_CountersReset ==
    (Sampling /\ phase = "prod") =>
        /\ (pc = "loop" /\ i = 1) => \A c \in Chains : accepted[c] = 0
        /\ accepted = prodAccepted

\* production begins after a thermalisation in which a chain moved (the two
\* chains started on different configurations and now share one)
C4_Witness ==
    /\ Sampling /\ phase = "prod" /\ pc = "loop" /\ i = 1
    /\ O.number_chains = 2 /\ O.number_discarded = 1
    /\ current_state[1] = current_state[2]
    /\ accepted = <<0, 0>>

\* C5: with number_samples >= 2 each chain's reported rate is
\* (accepted production steps) / ((number_samples - 1) * sweep_size) and lies
\* in [0, 1]; the summary is the mean of the per-chain rates and lies in [0, 1].
C5_RateBounds ==
    (pc = "done" /\ O.number_samples >= 2) =>
        LET den == (O.number_samples - 1) * O.sweep_size
            m == info[1]
        IN  /\ \A c \in Chains :
                /\ acceptance[c].kind = "num"
                /\ acceptance[c].num * den = prodAccepted[c] * acceptance[c].den
                /\ 0 <= acceptance[c].num
                /\ acceptance[c].num <= acceptance[c].den
            /\ m.kind = "num"
            /\ m.num * (den * O.number_chains)
                   = SumNum([c \in Chains |-> [num |-> prodAccepted[c]]], O.number_chains) * m.den
            /\ 0 <= m.num
            /\ m.num <= m.den

\* a run returned with one chain at rate 1 and the other at rate 0
C5_Witness ==
    /\ pc = "done" /\ O.number_samples = 3 /\ O.number_chains = 2
    /\ acceptance[1].num = acceptance[1].den
    /\ acceptance[2].num = 0

\* C6: with number_samples = 1 no production sweep is made, the run ends
\* without an exception, the one sample is the chain position after
\* thermalisation, and every reported acceptance is NaN.
C6_SingleSample ==
    (Sampling /\ O.number_samples = 1) =>
        /\ totalSteps <= O.number_discarded * O.sweep_size
        /\ err = NoError
        /\ pc = "done" =>
            /\ Len(states) = 1
            /\ Len(trace) = 1
            /\ trace[1].steps = O.number_discarded * O.sweep_size
            /\ states[1] = trace[1].state
            /\ log_probs[1] = trace[1].log_prob
            /\ \A c \in Chains : acceptance[c].kind = "nan"
            /\ info[1].kind = "nan"

\* a single-sample run returned after a thermalisation that moved a chain
C6_Witness ==
    /\ pc = "done" /\ O.number_samples = 1
    /\ O.number_discarded = 1 /\ O.number_chains = 2
    /\ states[1][1] = states[1][2]
    /\ info[1].kind = "nan"

\* C7: two runs of sample_using_metropolis with the same arguments (the
\* interface has no seed to supply) return the same samples.
C7_SameSamples ==
    (pc = "done" /\ firstRun # <<>>) =>
        /\ firstRun[1].states = states
        /\ firstRun[1].log_probs = log_probs

\* C8, as claimed: construction succeeds iff number_samples, number_chains
\* and sweep_size are positive and number_discarded is omitted or >= 0.
C8_AsClaimed ==
    args # <<>> =>
        (opts # <<>> <=>
            /\ A.number_samples > 0 /\ A.number_chains > 0 /\ A.sweep_size > 0
            /\ (A.number_discarded = <<>> \/ A.number_discarded[1] >= 0))

\* C8, amended: construction succeeds iff number_samples, number_chains and
\* sweep_size are positive and number_discarded is omitted or > 0; every
\* other combination raises ValueError and produces no object.
C8_Amended ==
    args # <<>> =>
        /\ opts # <<>> <=>
            /\ A.number_samples > 0 /\ A.number_chains > 0 /\ A.sweep_size > 0
            /\ (A.number_discarded = <<>> \/ A.number_discarded[1] > 0)
        /\ opts = <<>> => (pc = "raised" /\ err.type = "ValueError")
        /\ opts # <<>> =>
            /\ O.number_samples = A.number_samples
            /\ O.number_chains = A.number_chains
            /\ O.sweep_size = A.sweep_size
            /\ O.number_discarded = IF A.number_discarded = <<>>
                                    THEN A.number_samples \div 10
                                    ELSE A.number_discarded[1]

\* an explicit number_discarded = 0 with everything else valid was rejected
C8_Witness ==
    /\ args # <<>>
    /\ A.number_samples > 0 /\ A.number_chains > 0 /\ A.sweep_size > 0
    /\ A.number_discarded = <<0>>
    /\ opts = <<>>
    /\ err = Error("ValueError", "invalid number_discarded")

\* C9: a mode other than 'exact' and 'metropolis' ends sample_some with an
\* error before log_prob_fn is evaluated, and for 'zanella' the error marks
\* the mode as unimplemented and does not list it as supported.
C9_ModeRejected ==
    (call # <<>> /\ call[1].mode \notin {"exact", "metropolis"}) =>
        /\ pc = "raised"
        /\ err # NoError
        /\ ~evaluated
        /\ call[1].mode = "zanella" =>
            /\ err.type = "NotImplementedError"
            /\ "zanella" \notin err.supported

\* C10: along Runner.monte_carlo -> sample_some -> sampler the log-probability
\* the sampler holds for a state s is 2 * (amplitude output for s).
C10_SingleDoubling ==
    (Sampling /\ call[1].entry = "runner") =>
        \A c \in Chains :
            current_log_prob[c] = 2 * LogAmp(current_state[c])

\* C11: a call in mode 'exact' completes without error and returns states of
\* shape (number_samples, number_chains, 8) together with log-probabilities
\* of shape (number_samples, number_chains).
C11_ExactCompletes ==
    (call # <<>> /\ call[1].mode = "exact") =>
        /\ pc # "raised"
        /\ err = NoError
        /\ pc = "done" =>
            /\ Len(states) = O.number_samples
            /\ Len(log_probs) = O.number_samples

\* ---- the outer iteration: run() and Runner.step() ------------------------
MaxEpochs == 2

\* the values an integrated autocorrelation time takes here: one on each
\* side of the warning threshold
TauValues == {1, 3}
TauWarnThreshold == 2

Tags == {"autocorr_time/log_prob", "autocorr_time/energy", "autocorr_time/polynomial"}

\* Module.eval(): switches dropout and batch norm to inference behaviour and
\* leaves the parameters alone
EvalModeRetrains(p) == [p EXCEPT !.amplitude = p.amplitude + 1]
EvalMode(p) == p

\* the step argument given to tb_writer.add_scalar
ScalarStepZero(it) == it - it
ScalarStep(it) == it

\* add_scalar(tag, tau, step) and the branch on tau > 2 that follows it
RecordTau(tag, tau) ==
    /\ scalars' = scalars \cup {[tag |-> tag, step |-> ScalarStep(iteration), value |-> tau]}
    /\ warnings' = IF tau > TauWarnThreshold
                   THEN warnings \cup {[tag |-> tag, step |-> iteration]}
                   ELSE warnings

\* the phase `what` of the current iteration has completed
Logged(what) == Append(events, [it |-> iteration, what |-> what, params |-> params'])

\* step() has no handler: an exception raised in a phase leaves step() and run()
OnExceptionContinue == "refit_amp"
OnException == "raised"

Raise(what) ==
    /\ rpc' = OnException
    /\ raisedIn' = what
    /\ UNCHANGED <<epochs, sampling_method, loopI, iteration, files, events,
                   scalars, warnings>>

\* the directory of the checkpoints of Runner.train
PrefixShared(it) == it - it
Prefix(it) == it

\* torch.jit.save(model, prefix + "/" + name)
Saved(fs, name, content) ==
    {f \in fs : ~(f.dir = Prefix(iteration) /\ f.name = name)}
        \cup {[dir |-> Prefix(iteration), name |-> name, content |-> content,
               writer |-> iteration, complete |-> TRUE]}

\* a save cut short by an interruption: the file is there, truncated
Truncated(fs, name) ==
    {f \in fs : ~(f.dir = Prefix(iteration) /\ f.name = name)}
        \cup {[dir |-> Prefix(iteration), name |-> name, content |-> 0 - 1,
               writer |-> iteration, complete |-> FALSE]}

\* the statements of Runner.train followed by the increment, in program order
TrainOrderSignFirst == <<"refit_sign", "save_sign", "refit_amp", "save_amp", "increment">>
TrainOrder == <<"refit_amp", "save_amp", "refit_sign", "save_sign", "increment">>

After(p) == TrainOrder[(CHOOSE k \in 1..(Len(TrainOrder) - 1) : TrainOrder[k] = p) + 1]

\* self._iteration += 1
IncrementedTwice(n) == n + 2
Incremented(n) == n + 1

\* ManualTrainer.run(): the optimiser steps give new parameters, or none are
\* taken (max_epochs = 0, or the sign model is already exact)
Trained(v) == {v, v + 1}

InitRunner ==
    /\ SamplerStart
    /\ WindowIdle
    /\ PrepareIdle
    /\ ApplyIdle
    /\ FunctionsIdle
    /\ rpc = "loop"
    /\ epochs \in 0..MaxEpochs
    /\ sampling_method \in Modes
    /\ loopI = 0
    /\ iteration = 0
    /\ params = [amplitude |-> 0, sign |-> 0]
    /\ files = {}
    /\ events = <<>>
    /\ scalars = {}
    /\ warnings = {}
    /\ raisedIn = ""

notRunner == <<samplerVars, windowVars, prepareVars, applyVars, functionVars>>

\* for i in range(config.epochs): runner.step()
StepBegin ==
    /\ rpc = "loop"
    /\ loopI < epochs
    /\ rpc' = "sample"
    /\ UNCHANGED <<epochs, sampling_method, loopI, iteration, params, files, events,
                   scalars, warnings, raisedIn>>
    /\ UNCHANGED notRunner

RunReturn ==
    /\ rpc = "loop"
    /\ loopI >= epochs
    /\ rpc' = "returned"
    /\ UNCHANGED <<epochs, sampling_method, loopI, iteration, params, files, events,
                   scalars, warnings, raisedIn>>
    /\ UNCHANGED notRunner

\* how sample_some(log_prob_fn, basis, options, mode) ends for each mode
SampleSomeOutcomes(mode) ==
    IF mode = "exact" THEN {"NameError"}
    ELSE IF mode = "metropolis" THEN {"ok", "RuntimeError"}
    ELSE {"ValueError"}

\* Runner.monte_carlo: SAMPLE
MonteCarlo ==
    /\ rpc = "sample"
    /\ params' = EvalMode(params)
    /\ \E outcome \in SampleSomeOutcomes(sampling_method) :
        IF outcome # "ok"
        THEN Raise("SAMPLE")
        ELSE \E tau \in TauValues :
            /\ RecordTau("autocorr_time/log_prob", tau)
            /\ events' = Logged("SAMPLE")
            /\ rpc' = "diagnose"
            /\ UNCHANGED <<epochs, sampling_method, loopI, iteration, files, raisedIn>>
    /\ UNCHANGED notRunner

\* Runner.compute_metrics: DIAGNOSE; local_values may raise
ComputeMetrics ==
    /\ rpc = "diagnose"
    /\ params' = EvalMode(params)
    /\ \/ Raise("DIAGNOSE")
       \/ \E tau \in TauValues :
            /\ RecordTau("autocorr_time/energy", tau)
            /\ events' = Logged("DIAGNOSE")
            /\ rpc' = "filter"
            /\ UNCHANGED <<epochs, sampling_method, loopI, iteration, files, raisedIn>>
    /\ UNCHANGED notRunner

\* Runner.apply_polynomial: FILTER; _C.apply may raise
ApplyPolynomial ==
    /\ rpc = "filter"
    /\ params' = EvalMode(params)
    /\ \/ Raise("FILTER")
       \/ \E tau \in TauValues :
            /\ RecordTau("autocorr_time/polynomial", tau)
            /\ events' = Logged("FILTER")
            /\ rpc' = TrainOrder[1]
            /\ UNCHANGED <<epochs, sampling_method, loopI, iteration, files, raisedIn>>
    /\ UNCHANGED notRunner

\* Runner.train, first statement pair: train(Target.AMPLITUDE, ...)
TrainAmplitude ==
    /\ rpc = "refit_amp"
    /\ \E v \in Trained(params.amplitude) : params' = [params EXCEPT !.amplitude = v]
    /\ events' = Logged("train_amp")
    /\ rpc' = After(rpc)
    /\ UNCHANGED <<epochs, sampling_method, loopI, iteration, files, scalars, warnings,
                   raisedIn>>
    /\ UNCHANGED notRunner

\* torch.jit.save(self.amplitude, prefix + "/amplitude.pt")
SaveAmplitude ==
    /\ rpc = "save_amp"
    /\ files' = Saved(files, "amplitude.pt", params.amplitude)
    /\ params' = params
    /\ events' = Logged("save_amp")
    /\ rpc' = After(rpc)
    /\ UNCHANGED <<epochs, sampling_method, loopI, iteration, scalars, warnings, raisedIn>>
    /\ UNCHANGED notRunner

\* train(Target.SIGN, ...)
TrainSign ==
    /\ rpc = "refit_sign"
    /\ \E v \in Trained(params.sign) : params' = [params EXCEPT !.sign = v]
    /\ events' = Logged("train_sign")
    /\ rpc' = After(rpc)
    /\ UNCHANGED <<epochs, sampling_method, loopI, iteration, files, scalars, warnings,
                   raisedIn>>
    /\ UNCHANGED notRunner

\* torch.jit.save(self.sign, prefix + "/sign.pt")
SaveSign ==
    /\ rpc = "save_sign"
    /\ files' = Saved(files, "sign.pt", params.sign)
    /\ params' = params
    /\ events' = Logged("save_sign")
    /\ rpc' = After(rpc)
    /\ UNCHANGED <<epochs, sampling_method, loopI, iteration, scalars, warnings, raisedIn>>
    /\ UNCHANGED notRunner

\* self._iteration += 1, and the loop of run() advances
StepEnd ==
    /\ rpc = "increment"
    /\ iteration' = Incremented(iteration)
    /\ loopI' = loopI + 1
    /\ params' = params
    /\ events' = Logged("increment")
    /\ rpc' = "loop"
    /\ UNCHANGED <<epochs, sampling_method, files, scalars, warnings, raisedIn>>
    /\ UNCHANGED notRunner

InStep == {"sample", "diagnose", "filter", "refit_amp", "save_amp", "refit_sign",
           "save_sign", "increment"}

\* the process is interrupted inside step(); a save under way leaves a
\* truncated file, a training under way may have taken optimiser steps
Interrupt ==
    /\ rpc \in InStep
    /\ rpc' = "interrupted"
    /\ files' \in
        IF rpc = "save_amp" THEN {files, Truncated(files, "amplitude.pt")}
        ELSE IF rpc = "save_sign" THEN {files, Truncated(files, "sign.pt")}
        ELSE {files}
    /\ params' \in
        IF rpc = "refit_amp"
        THEN {[params EXCEPT !.amplitude = v] : v \in Trained(params.amplitude)}
        ELSE IF rpc = "refit_sign"
        THEN {[params EXCEPT !.sign = v] : v \in Trained(params.sign)}
        ELSE {params}
    /\ UNCHANGED <<epochs, sampling_method, loopI, iteration, events, scalars, warnings,
                   raisedIn>>
    /\ UNCHANGED notRunner

NextRunner ==
    \/ StepBegin
    \/ RunReturn
    \/ MonteCarlo
    \/ ComputeMetrics
    \/ ApplyPolynomial
    \/ TrainAmplitude
    \/ SaveAmplitude
    \/ TrainSign
    \/ SaveSign
    \/ StepEnd
    \/ Interrupt

SpecRunner == InitRunner /\ [][NextRunner]_vars

\* ---- properties of the outer iteration -----------------------------------
\* what one complete iteration logs, in order
PhaseSeq == <<"SAMPLE", "DIAGNOSE", "FILTER", "train_amp", "save_amp", "train_sign",
              "save_sign", "increment">>

EventsOf(k) == SelectSeq(events, LAMBDA e : e.it = k)

\* C12: run() executes exactly config.epochs iterations and stops; in every
\* iteration SAMPLE, DIAGNOSE, FILTER and REFIT (amplitude refit and save,
\* sign refit and save) happen in this order, each once, the counter is
\* incremented by one only after REFIT, and after k completed iterations the
\* counter is k.
C12_IterationOrder ==
    /\ \A n \in 1..Len(events) :
        /\ events[n].what = PhaseSeq[((n - 1) % Len(PhaseSeq)) + 1]
        /\ events[n].it = (n - 1) \div Len(PhaseSeq)
    /\ iteration = Len(events) \div Len(PhaseSeq)
    /\ iteration = loopI
    /\ iteration <= epochs
    /\ rpc = "returned" =>
        /\ iteration = epochs
        /\ Len(events) = epochs * Len(PhaseSeq)

C12_Witness ==
    /\ rpc = "returned"
    /\ epochs >= 2
    /\ Len(EventsOf(1)) = Len(PhaseSeq)

\* the parameters left by the REFIT of iteration k - 1 (the initial ones for k = 0)
LeftBefore(k) ==
    IF k = 0 THEN [amplitude |-> 0, sign |-> 0]
    ELSE LET prev == EventsOf(k - 1) IN prev[Len(prev)].params

\* C13: SAMPLE, DIAGNOSE and FILTER leave the parameters of both models
\* unchanged; the parameters change only inside REFIT; the SAMPLE, DIAGNOSE
\* and FILTER of iteration k+1 work on the parameters the REFIT of iteration k
\* left.
C13_ParamsOnlyInRefit ==
    /\ [](\A n \in 1..Len(events) :
            events[n].what \in {"SAMPLE", "DIAGNOSE", "FILTER"} =>
                events[n].params = LeftBefore(events[n].it))
    /\ [][params' # params => rpc \in {"refit_amp", "refit_sign"}]_vars

C13_Witness ==
    \E n \in 1..Len(events) :
        /\ events[n].what = "FILTER"
        /\ events[n].it = 1
        /\ events[n].params = [amplitude |-> 1, sign |-> 1]

Position(k, what) == CHOOSE n \in 1..Len(events) : events[n].it = k /\ events[n].what = what

Happened(k, what) == \E n \in 1..Len(events) : events[n].it = k /\ events[n].what = what

\* C14: when the SAMPLE of iteration k+1 begins, the amplitude refit, the
\* amplitude checkpoint write, the sign refit and the sign checkpoint write
\* of iteration k have all completed, in this order.
C14_StrictSequencing ==
    \A k \in 0..MaxEpochs :
        ((rpc = "sample" /\ iteration = k + 1) \/ Happened(k + 1, "SAMPLE")) =>
            /\ \A w \in {"train_amp", "save_amp", "train_sign", "save_sign"} : Happened(k, w)
            /\ Position(k, "train_amp") < Position(k, "save_amp")
            /\ Position(k, "save_amp") < Position(k, "train_sign")
            /\ Position(k, "train_sign") < Position(k, "save_sign")
            /\ Happened(k + 1, "SAMPLE") => Position(k, "save_sign") < Position(k + 1, "SAMPLE")

C14_Witness ==
    /\ rpc = "sample"
    /\ iteration = 1
    /\ Happened(0, "save_sign")

Checkpoint(k, name) ==
    {f \in files : f.dir = k /\ f.name = name /\ f.writer = k /\ f.complete}

\* C15: iteration k writes its checkpoints only under <output>/k/; at every
\* point of a run, an interruption inside iteration k included, the
\* checkpoints of every completed iteration j < k exist as that iteration
\* wrote them.
C15_CheckpointsKept ==
    /\ [](\A k \in 0..(iteration - 1) :
            /\ Checkpoint(k, "amplitude.pt") # {}
            /\ Checkpoint(k, "sign.pt") # {})
    /\ [][/\ \A f \in files : f.dir # iteration => f \in files'
          /\ \A f \in files' \ files : f.dir = iteration]_vars

C15_Witness ==
    /\ rpc = "interrupted"
    /\ iteration = 1
    /\ \E f \in files : f.dir = 1 /\ ~f.complete
    /\ Checkpoint(0, "amplitude.pt") # {}
    /\ Checkpoint(0, "sign.pt") # {}

\* C16: an error raised by the sampler or by an estimator leaves step() and
\* run(): the REFIT of that iteration is not executed, the counter is not
\* incremented and no later iteration starts.
C16_ErrorAborts ==
    /\ [](raisedIn # "" =>
            /\ rpc = "raised"
            /\ iteration = loopI
            /\ \A n \in 1..Len(events) :
                /\ events[n].it <= iteration
                /\ events[n].it = iteration =>
                    events[n].what \in {"SAMPLE", "DIAGNOSE", "FILTER"}
            /\ \A f \in files : f.dir # iteration)
    /\ [][raisedIn = ""]_vars

C16_Witness ==
    /\ raisedIn = "FILTER"
    /\ iteration = 1
    /\ epochs = 2

TagOf(what) ==
    IF what = "SAMPLE" THEN "autocorr_time/log_prob"
    ELSE IF what = "DIAGNOSE" THEN "autocorr_time/energy"
    ELSE "autocorr_time/polynomial"

\* C18: every iteration records the autocorrelation time of log_prob, energy
\* and polynomial under the index of that iteration, once the samples are
\* there; a value above 2 gives a warning and the phase completes all the
\* same.
C18_TauRecorded ==
    /\ \A n \in 1..Len(events) :
        events[n].what \in {"SAMPLE", "DIAGNOSE", "FILTER"} =>
            \E s \in scalars : s.tag = TagOf(events[n].what) /\ s.step = events[n].it
    /\ \A s \in scalars :
        /\ s.tag \in Tags
        /\ s.step <= iteration
        /\ s.step = iteration => Happened(iteration, "SAMPLE")
        /\ s.value > TauWarnThreshold <=> [tag |-> s.tag, step |-> s.step] \in warnings
    /\ \A w \in warnings :
        \E n \in 1..Len(events) : events[n].it = w.step /\ TagOf(events[n].what) = w.tag

C18_Witness ==
    /\ rpc = "returned"
    /\ epochs = 2
    /\ \A t \in Tags : [tag |-> t, step |-> 0] \in warnings
    /\ \A t \in Tags : \E s \in scalars : s.tag = t /\ s.step = 1

\* ---- _auto_window and integrated_autocorr_time ---------------------------
MaxLen == 3
AcfDen == 2

\* the values of c: the default 5.0 and a smaller one
CValues == {1, 5}

\* a normalised autocorrelation function, in units of 1 / AcfDen: its entry
\* at lag 0 is 1 (autocorr /= autocorr[0])
AcfValues == (0 - 1)..AcfDen
AcfOfLength(n) == {a \in [1..n -> AcfValues] : a[1] = AcfDen}

\* taus given to _auto_window directly: any numbers
TausValues == (0 - 1)..2
TausOfLength(n) == [1..n -> TausValues]

\* np.arange(len(taus)) < c * taus, with taus[k] = t[k] / den (k from 1)
Below(t, c, den) == [k \in 1..Len(t) |-> (k - 1) * den < c * t[k]]

\* np.argmin over booleans: the index (from 0) of the first False, 0 if none
ArgMin(m) ==
    IF \E k \in 1..Len(m) : ~m[k]
    THEN (CHOOSE k \in 1..Len(m) : ~m[k] /\ \A l \in 1..(k - 1) : m[l]) - 1
    ELSE 0

\* _auto_window(taus, c)
AutoWindowFirstTrue(t, c, den) ==
    LET m == Below(t, c, den)
    IN  IF \E k \in 1..Len(m) : m[k]
        THEN (CHOOSE k \in 1..Len(m) : m[k] /\ \A l \in 1..(k - 1) : ~m[l]) - 1
        ELSE Len(t) - 1
AutoWindow(t, c, den) ==
    LET m == Below(t, c, den)
    IN  IF \E k \in 1..Len(m) : m[k] THEN ArgMin(m) ELSE Len(t) - 1

\* f: the sum over the chains of the per-chain autocorrelation functions;
\* dividing by the number of chains is left to the denominator
SumOverChains(a) ==
    LET RECURSIVE upto(_)
        upto(c) == IF c = 0 THEN [k \in 1..Len(a[1]) |-> 0]
                   ELSE [k \in 1..Len(a[1]) |-> upto(c - 1)[k] + a[c][k]]
    IN  upto(Len(a))

\* np.cumsum
RECURSIVE CumSum(_, _)
CumSum(f, k) == IF k = 0 THEN 0 ELSE CumSum(f, k - 1) + f[k]

\* taus = 2.0 * np.cumsum(f) - 1.0, as numerators over AcfDen * number of chains
Taus(a) ==
    LET f == SumOverChains(a)
    IN  [k \in 1..Len(f) |-> 2 * CumSum(f, k) - AcfDen * Len(a)]

InitWindow ==
    /\ SamplerStart
    /\ RunnerIdle
    /\ PrepareIdle
    /\ ApplyIdle
    /\ FunctionsIdle
    /\ wpc = "start"
    /\ cArg \in CValues
    /\ \E n \in 1..MaxLen :
        \/ /\ acf = <<>>
           /\ taus \in TausOfLength(n)
        \/ /\ \E chains \in 1..MaxChains : acf \in [1..chains -> AcfOfLength(n)]
           /\ taus = <<>>
    /\ tausDen = 1
    /\ window = 0
    /\ tauOut = <<>>

notWindow == <<samplerVars, runnerVars, prepareVars, applyVars, functionVars>>

\* a direct call _auto_window(taus, c)
CallAutoWindow ==
    /\ wpc = "start"
    /\ acf = <<>>
    /\ window' = AutoWindow(taus, cArg, tausDen)
    /\ wpc' = "done"
    /\ UNCHANGED <<acf, taus, tausDen, cArg, tauOut>>
    /\ UNCHANGED notWindow

\* integrated_autocorr_time(x, c), from the per-chain autocorrelation functions on
IntegratedAutocorrTime ==
    /\ wpc = "start"
    /\ acf # <<>>
    /\ taus' = Taus(acf)
    /\ tausDen' = AcfDen * Len(acf)
    /\ window' = AutoWindow(taus', cArg, tausDen')
    /\ tauOut' = <<taus'[window' + 1]>>
    /\ wpc' = "done"
    /\ UNCHANGED <<acf, cArg>>
    /\ UNCHANGED notWindow

NextWindow ==
    \/ CallAutoWindow
    \/ IntegratedAutocorrTime

SpecWindow == InitWindow /\ [][NextWindow]_vars

\* index M (from 0) satisfies M < c * taus[M]
Satisfies(M) == M * tausDen < cArg * taus[M + 1]

Indices == 0..(Len(taus) - 1)

\* the returned value is taus at the window, and taus is 2 * cumsum(f) - 1
\* for the mean f of the per-chain autocorrelation functions
TausAsDocumented ==
    acf # <<>> =>
        /\ tauOut = <<taus[window + 1]>>
        /\ taus[1] = 2 * SumOverChains(acf)[1] - tausDen
        /\ \A k \in 2..Len(taus) : taus[k] - taus[k - 1] = 2 * SumOverChains(acf)[k]

\* C17: _auto_window(taus, c) is the smallest index M with M < c * taus[M],
\* the last index if there is none; integrated_autocorr_time returns taus at
\* that window, taus[M] = 2 * cumsum(mean autocorrelation)[M] - 1.
C17_AsClaimed ==
    wpc = "done" =>
        /\ window \in Indices
        /\ IF \E M \in Indices : Satisfies(M)
           THEN Satisfies(window) /\ \A M \in 0..(window - 1) : ~Satisfies(M)
           ELSE window = Len(taus) - 1
        /\ TausAsDocumented

\* C17 (amended): _auto_window(taus, c) is the last index if no index M has
\* M < c * taus[M]; otherwise it is the smallest index M with
\* M >= c * taus[M], and 0 if every index has M < c * taus[M];
\* integrated_autocorr_time returns taus at that window,
\* taus[M] = 2 * cumsum(mean autocorrelation)[M] - 1.
C17_Amended ==
    wpc = "done" =>
        /\ window \in Indices
        /\ (\A M \in Indices : ~Satisfies(M)) => window = Len(taus) - 1
        /\ (\A M \in Indices : Satisfies(M)) => window = 0
        /\ ((\E M \in Indices : Satisfies(M)) /\ (\E M \in Indices : ~Satisfies(M))) =>
            /\ ~Satisfies(window)
            /\ \A M \in 0..(window - 1) : Satisfies(M)
        /\ TausAsDocumented

C17_Witness ==
    /\ wpc = "done"
    /\ acf # <<>>
    /\ Len(acf) = 2
    /\ window = 1
    /\ Len(taus) = 3
    /\ Satisfies(0)
    /\ ~Satisfies(1)

\* ---- _prepare_initial_state ----------------------------------------------
MaxBatch == 3

\* the lower limit of the number of generation attempts
AttemptFloor == 10000

\* batch sizes: the small ones, and one for which 2 * batch_size is the limit
BatchSizes == (0..MaxBatch) \cup {AttemptFloor \div 2 + 1}

\* max(2 * batch_size, 10000)
AttemptsFloorOnly(b) == AttemptFloor
Attempts(b) == IF 2 * b > AttemptFloor THEN 2 * b ELSE AttemptFloor

\* the batches torch.randperm(len(states))[:batch_size] can pick from the
\* list of the representatives found
SelectionsWithRepeats(found, n) == [1..n -> found]
Selections(found, n) ==
    {s \in [1..n -> found] : \A a, b \in 1..n : a # b => s[a] # s[b]}

InitPrepare ==
    /\ SamplerStart
    /\ RunnerIdle
    /\ WindowIdle
    /\ ApplyIdle
    /\ FunctionsIdle
    /\ ppc = "start"
    /\ batch_size \in BatchSizes
    /\ attempt = 0
    /\ reps = {}
    /\ batch = <<>>
    /\ perr = NoError

notPrepare == <<samplerVars, runnerVars, windowVars, applyVars, functionVars>>

\* if batch_size <= 0: raise ValueError; states = set()
PrepareBegin ==
    /\ ppc = "start"
    /\ IF batch_size <= 0
       THEN /\ ppc' = "raised"
            /\ perr' = Error("ValueError", "invalid batch size")
       ELSE /\ ppc' = "loop"
            /\ perr' = perr
    /\ UNCHANGED <<batch_size, attempt, reps, batch>>
    /\ UNCHANGED notPrepare

\* one pass of the loop: states.add(basis.full_info(spin)[0]) for a random spin
Attempt ==
    /\ ppc = "loop"
    /\ attempt < Attempts(batch_size)
    /\ \E representative \in States : reps' = reps \cup {representative}
    /\ attempt' = attempt + 1
    /\ UNCHANGED <<ppc, batch_size, batch, perr>>
    /\ UNCHANGED notPrepare

\* after the loop: the check of len(states), then the random selection
Select ==
    /\ ppc = "loop"
    /\ attempt >= Attempts(batch_size)
    /\ IF Cardinality(reps) < batch_size
       THEN /\ ppc' = "raised"
            /\ perr' = Error("RuntimeError",
                             "failed to generate enough different spin configurations")
            /\ batch' = batch
       ELSE /\ ppc' = "returned"
            /\ perr' = perr
            /\ batch' \in Selections(reps, batch_size)
    /\ UNCHANGED <<batch_size, attempt, reps>>
    /\ UNCHANGED notPrepare

NextPrepare ==
    \/ PrepareBegin
    \/ Attempt
    \/ Select

SpecPrepare == InitPrepare /\ [][NextPrepare]_vars

\* C19: _prepare_initial_state makes at most max(2 * batch_size, 10000)
\* generation attempts and then ends; it returns exactly batch_size pairwise
\* distinct representatives, or raises an error (RuntimeError when fewer than
\* batch_size distinct representatives were found); a returned batch has no
\* duplicate.
C19_BoundedDistinct ==
    /\ [](/\ attempt <= Attempts(batch_size)
          /\ ppc = "returned" =>
                /\ perr = NoError
                /\ attempt = Attempts(batch_size)
                /\ Len(batch) = batch_size
                /\ \A a \in 1..Len(batch) : batch[a] \in reps
                /\ \A a, b \in 1..Len(batch) : a # b => batch[a] # batch[b]
          /\ ppc = "raised" =>
                /\ batch = <<>>
                /\ perr.type \in {"ValueError", "RuntimeError"}
                /\ perr.type = "ValueError" <=> batch_size <= 0
                /\ perr.type = "RuntimeError" =>
                    /\ attempt = Attempts(batch_size)
                    /\ Cardinality(reps) < batch_size)
    /\ [][/\ (ppc = "loop" /\ ppc' = "loop") => attempt' = attempt + 1
          /\ (ppc = "loop" /\ attempt >= Attempts(batch_size)) => ppc' # "loop"]_vars

C19_Witness ==
    /\ ppc = "returned"
    /\ batch_size = 2
    /\ Cardinality(reps) = 3
    /\ attempt = AttemptFloor

\* ---- log_apply and its debug check ---------------------------------------
MaxSpins == 2

\* numbers are in units of 1e-8; a relative tolerance is RtolNum / RtolDen
RtolDen == 100000

\* torch.isclose(a, b) as called by log_apply: the defaults rtol = 1e-5, atol = 1e-8
UsedRtolNum == 1
UsedAtol == 1

\* _isclose: rtol = 5e-5, atol = 5e-7
IscloseRtolNum == 5
IscloseAtol == 50

Abs(x) == IF x < 0 THEN 0 - x ELSE x

\* torch.isclose(a, b, rtol, atol): |a - b| <= atol + rtol * |b|
TorchIsClose(a, b, rtolNum, atol) == Abs(a - b) * RtolDen <= atol * RtolDen + rtolNum * Abs(b)

\* the comparison log_apply makes in debug mode
IsClose(a, b) == TorchIsClose(a, b, UsedRtolNum, UsedAtol)

\* reference values, and by how much the accelerated value is off
ReferenceValues == {0, 100000}
Offsets == {0, 2, 30, 100}

LogApplyArgs == [batch_size : 0..1, debug : BOOLEAN, spins : 1..MaxSpins]

InitLogApply ==
    /\ SamplerStart
    /\ RunnerIdle
    /\ WindowIdle
    /\ PrepareIdle
    /\ FunctionsIdle
    /\ lpc = "start"
    /\ \E a \in LogApplyArgs : laArgs = <<a>>
    /\ laCxx = <<>>
    /\ laPy = <<>>
    /\ laReported = {}
    /\ laErr = NoError

notApply == <<samplerVars, runnerVars, windowVars, prepareVars, functionVars>>

\* the check of batch_size, then log_h_psi = lib.log_apply(...)
LogApplyCompute ==
    /\ lpc = "start"
    /\ IF laArgs[1].batch_size <= 0
       THEN /\ lpc' = "raised"
            /\ laErr' = Error("ValueError", "invalid batch_size")
            /\ laCxx' = laCxx
       ELSE /\ lpc' = "computed"
            /\ laErr' = laErr
            /\ laCxx' \in [1..laArgs[1].spins ->
                            {r + d : r \in ReferenceValues, d \in Offsets}]
    /\ UNCHANGED <<laArgs, laPy, laReported>>
    /\ UNCHANGED notApply

\* if debug: evaluate reference_log_apply, compare, report and assert False
LogApplyDebug ==
    /\ lpc = "computed"
    /\ laArgs[1].debug
    /\ laPy' \in {p \in [1..laArgs[1].spins -> ReferenceValues] :
                    \A k \in 1..laArgs[1].spins : laCxx[k] - p[k] \in Offsets}
    /\ LET differ == {k \in 1..laArgs[1].spins : ~IsClose(laCxx[k], laPy'[k])}
       IN  IF differ # {}
           THEN /\ laReported' = {[index |-> k - 1, cxx |-> laCxx[k], py |-> laPy'[k]] :
                                    k \in differ}
                /\ laErr' = Error("AssertionError", "")
                /\ lpc' = "raised"
           ELSE /\ laReported' = laReported
                /\ laErr' = laErr
                /\ lpc' = "returned"
    /\ UNCHANGED <<laArgs, laCxx>>
    /\ UNCHANGED notApply

\* debug off: return log_h_psi.view(original_shape)
LogApplyReturn ==
    /\ lpc = "computed"
    /\ ~laArgs[1].debug
    /\ lpc' = "returned"
    /\ UNCHANGED <<laArgs, laCxx, laPy, laReported, laErr>>
    /\ UNCHANGED notApply

NextLogApply ==
    \/ LogApplyCompute
    \/ LogApplyDebug
    \/ LogApplyReturn

SpecLogApply == InitLogApply /\ [][NextLogApply]_vars

\* the entries that differ by more than rtol = 5e-5, atol = 5e-7
Offending ==
    {k \in 1..Len(laPy) : ~TorchIsClose(laCxx[k], laPy[k], IscloseRtolNum, IscloseAtol)}

\* C20: with debug on, log_apply aborts exactly when some entry of the
\* accelerated result differs from the reference by more than rtol = 5e-5,
\* atol = 5e-7, after reporting the index and both values of each such entry;
\* with debug off the reference is never evaluated and nothing is reported.
C20_ToleranceCheck ==
    (lpc \in {"returned", "raised"} /\ laArgs[1].batch_size > 0) =>
        IF laArgs[1].debug
        THEN /\ laPy # <<>>
             /\ (lpc = "raised") <=> (Offending # {})
             /\ laReported = {[index |-> k - 1, cxx |-> laCxx[k], py |-> laPy[k]] :
                                k \in Offending}
        ELSE /\ laPy = <<>>
             /\ laReported = {}
             /\ lpc = "returned"

\* C25: if every chain has norm > 0, every step of metropolis_process leaves
\* every chain with norm > 0: the quotient proposed_norm / current_norm is a
\* number (no division by zero) and a proposal of norm 0 is not accepted.
C25_NormStaysPositive ==
    [][(Sampling /\ \A c \in Chains : current_norm[c] > 0) =>
        /\ \A c \in Chains : current_norm'[c] > 0
        /\ pc = "decide" =>
            \A c \in Chains :
                /\ R[c].kind = "num"
                /\ proposed_norm[c] = 0 =>
                    /\ ~T[c]
                    /\ states'[cur + 1][c] = current_state[c]]_vars

\* a run that ended with both chains on states of norm > 0, one of which
\* moved and also refused proposals
C25_Witness ==
    /\ pc = "done"
    /\ O.number_chains = 2
    /\ \A c \in Chains : current_norm[c] > 0
    /\ \E c \in Chains : prodAccepted[c] > 0 /\ prodAccepted[c] < RateDenominator

MaxTrainEpochs == 11

\* the number of points of np.linspace(0, max_epochs, 10, dtype=np.int64)
EvalPoints == 10

\* _when_to_eval() with debug off: the points k * max_epochs / 9, truncated
WhenToEval(m) == {(k * m) \div (EvalPoints - 1) : k \in 0..(EvalPoints - 1)}

Targets == {"AMPLITUDE", "SIGN"}

\* r.get("accuracy", 0) of an evaluation: the amplitude metrics have no
\* accuracy; for the sign it is 1 or below 1 (0 stands for any value below 1)
Accuracies(t) == IF t = "SIGN" THEN {0, 1} ELSE {0}

\* the result of evaluate(epoch), given r.get("accuracy", 0)
ShouldStopNever(t, accuracy) == FALSE
ShouldStop(t, accuracy) == t = "SIGN" /\ accuracy = 1

InitTrainer ==
    /\ SamplerStart
    /\ RunnerIdle
    /\ WindowIdle
    /\ PrepareIdle
    /\ ApplyIdle
    /\ HeisenbergIdle
    /\ ExpIdle
    /\ MetricIdle
    /\ SpinIdle
    /\ tpc = "evaluate"
    /\ target \in Targets
    /\ max_epochs \in 0..MaxTrainEpochs
    /\ epoch = 0
    /\ passes = 0
    /\ evals = <<>>

notTrainer == <<samplerVars, runnerVars, windowVars, prepareVars, applyVars,
                heisenbergVars, expVars, metricVars, spinVars>>

\* evaluate(epoch): at epoch 0 before the loop, and after each training pass;
\* the metrics are computed only at the epochs of the schedule; then either
\* the early stop or the loop goes on (or ends)
Evaluate ==
    /\ tpc = "evaluate"
    /\ IF epoch \in WhenToEval(max_epochs)
       THEN \E accuracy \in Accuracies(target) :
            /\ evals' = Append(evals, [epoch |-> epoch, passes |-> passes,
                                       accuracy |-> accuracy])
            /\ tpc' = IF ShouldStop(target, accuracy) THEN "returned"
                      ELSE IF epoch < max_epochs THEN "train" ELSE "returned"
       ELSE /\ evals' = evals
            /\ tpc' = IF epoch < max_epochs THEN "train" ELSE "returned"
    /\ UNCHANGED <<target, max_epochs, epoch, passes>>
    /\ UNCHANGED notTrainer

\* for epoch in range(1, max_epochs + 1): _run_once_on_dataset(epoch, iteration)
RunOnceOnDataset ==
    /\ tpc = "train"
    /\ epoch' = epoch + 1
    /\ passes' = passes + 1
    /\ tpc' = "evaluate"
    /\ UNCHANGED <<target, max_epochs, evals>>
    /\ UNCHANGED notTrainer

NextTrainer ==
    \/ Evaluate
    \/ RunOnceOnDataset

SpecTrainer == InitTrainer /\ [][NextTrainer]_vars

Perfect == {k \in 1..Len(evals) : evals[k].accuracy = 1}

\* C21: at most max_epochs training passes; for the SIGN target the first
\* evaluation is at epoch 0 before any pass, and training stops at the first
\* evaluation of the schedule that finds accuracy 1, with no pass after it;
\* for the AMPLITUDE target there is no early stop: exactly max_epochs passes.
C21_EarlyStop ==
    /\ passes <= max_epochs
    /\ passes = epoch
    /\ Len(evals) >= 1 => (evals[1].epoch = 0 /\ evals[1].passes = 0)
    /\ \A k \in 1..Len(evals) : evals[k].passes = evals[k].epoch
    /\ \A k \in Perfect :
        /\ k = Len(evals)
        /\ tpc = "returned"
        /\ passes = evals[k].epoch
    /\ tpc = "returned" =>
        /\ Len(evals) >= 1
        /\ target = "AMPLITUDE" => passes = max_epochs
        /\ (target = "SIGN" /\ Perfect = {}) => passes = max_epochs

C21_Witness ==
    /\ tpc = "returned"
    /\ target = "SIGN"
    /\ max_epochs = MaxTrainEpochs
    /\ passes > 0 /\ passes < max_epochs
    /\ Perfect # {}

\* ---- heisenberg_interaction ----------------------------------------------
MaxSite == 2
MaxEdges == 2

\* complex numbers with integer parts
Complex(re, im) == [re |-> re, im |-> im]
Times(a, b) == Complex(a.re * b.re - a.im * b.im, a.re * b.im + a.im * b.re)

Couplings == {Complex(re, im) : re \in (0 - 1)..2, im \in 0..1}

\* lists of edges over the sites 0..MaxSite
Edges == {<<a, b>> : a, b \in 0..MaxSite}
EdgeLists == UNION {[1..n -> Edges] : n \in 0..MaxEdges}

\* the two literal matrices, row by row
MatrixSignRuleIgnored(sign_rule) ==
    <<<<1, 0, 0, 0>>, <<0, 0 - 1, 2, 0>>, <<0, 2, 0 - 1, 0>>, <<0, 0, 0, 1>>>>
Matrix(sign_rule) ==
    IF sign_rule
    THEN <<<<1, 0, 0, 0>>, <<0, 0 - 1, 0 - 2, 0>>, <<0, 0 - 2, 0 - 1, 0>>, <<0, 0, 0, 1>>>>
    ELSE <<<<1, 0, 0, 0>>, <<0, 0 - 1, 2, 0>>, <<0, 2, 0 - 1, 0>>, <<0, 0, 0, 1>>>>

\* np.array(..., dtype=np.complex128); matrix *= coupling
Scaled(m, coupling) ==
    [r \in 1..Len(m) |-> [c \in 1..Len(m[r]) |-> Times(Complex(m[r][c], 0), coupling)]]

InitHeisenberg ==
    /\ SamplerStart
    /\ RunnerIdle
    /\ WindowIdle
    /\ PrepareIdle
    /\ ApplyIdle
    /\ TrainerIdle
    /\ ExpIdle
    /\ MetricIdle
    /\ SpinIdle
    /\ hpc = "start"
    /\ \E e \in EdgeLists, k \in Couplings, s \in BOOLEAN :
        hArgs = <<[edges |-> e, coupling |-> k, sign_rule |-> s]>>
    /\ interaction = <<>>

notHeisenberg == <<samplerVars, runnerVars, windowVars, prepareVars, applyVars,
                   trainerVars, expVars, metricVars, spinVars>>

\* the whole function: return Interaction(matrix, edges)
HeisenbergInteraction ==
    /\ hpc = "start"
    /\ interaction' = <<[matrix |-> Scaled(Matrix(hArgs[1].sign_rule), hArgs[1].coupling),
                         edges |-> hArgs[1].edges]>>
    /\ hpc' = "returned"
    /\ UNCHANGED hArgs
    /\ UNCHANGED notHeisenberg

NextHeisenberg == HeisenbergInteraction

SpecHeisenberg == InitHeisenberg /\ [][NextHeisenberg]_vars

\* C22: the interaction is built on exactly the given edges from the matrix
\* with diagonal (J, -J, -J, J), the two entries between the middle states
\* equal to 2J (sign_rule False) or -2J (sign_rule True) and 0 elsewhere,
\* J being the coupling.
C22_HeisenbergMatrix ==
    hpc = "returned" =>
        LET J == hArgs[1].coupling
            minusJ == Complex(0 - J.re, 0 - J.im)
            twoJ == Complex(2 * J.re, 2 * J.im)
            minusTwoJ == Complex(0 - 2 * J.re, 0 - 2 * J.im)
            zero == Complex(0, 0)
            off == IF hArgs[1].sign_rule THEN minusTwoJ ELSE twoJ
            m == interaction[1].matrix
        IN  /\ interaction[1].edges = hArgs[1].edges
            /\ m = <<<<J, zero, zero, zero>>,
                     <<zero, minusJ, off, zero>>,
                     <<zero, off, minusJ, zero>>,
                     <<zero, zero, zero, J>>>>

C22_Witness ==
    /\ hpc = "returned"
    /\ hArgs[1].sign_rule
    /\ hArgs[1].coupling = Complex(2, 1)
    /\ Len(hArgs[1].edges) = 2
    /\ interaction[1].matrix[2][3] = Complex(0 - 4, 0 - 2)

\* ---- safe_exp ------------------------------------------------------------
\* entries of x are integers in units of ln 2, so that exp is a power of 2
XValues == (0 - 1)..2
Vectors == UNION {[1..n -> XValues] : n \in 1..MaxLen}

\* torch.max(x)
Maximum(v) == CHOOSE m \in {v[k] : k \in 1..Len(v)} : \A k \in 1..Len(v) : v[k] <= m

\* x - torch.max(x)
Shifted(v) == [k \in 1..Len(v) |-> v[k] - Maximum(v)]

\* the caller's tensor after "x = x - torch.max(x)": the difference is a new
\* tensor, the name x of the function moves to it
CallerTensorAfterInPlace(v) == Shifted(v)
CallerTensorAfter(v) == v

RECURSIVE SumSeq(_, _)
SumSeq(f, n) == IF n = 0 THEN 0 ELSE f[n] + SumSeq(f, n - 1)

\* torch.exp_ of entries e <= 0, as numerators over the common denominator
\* 2^depth, depth being the largest -e
ExpNumerators(e) ==
    LET depth == 0 - (CHOOSE m \in {e[k] : k \in 1..Len(e)} : \A k \in 1..Len(e) : m <= e[k])
    IN  [k \in 1..Len(e) |-> Pow2(depth + e[k])]
ExpDenominator(e) ==
    Pow2(0 - (CHOOSE m \in {e[k] : k \in 1..Len(e)} : \A k \in 1..Len(e) : m <= e[k]))

\* safe_exp(x, normalise): the entries are num[k] / den
SafeExp(v, norm) ==
    LET e == Shifted(v)
        nums == ExpNumerators(e)
    IN  [num |-> nums,
         den |-> IF norm THEN SumSeq(nums, Len(nums)) ELSE ExpDenominator(e)]

InitExp ==
    /\ SamplerStart
    /\ RunnerIdle
    /\ WindowIdle
    /\ PrepareIdle
    /\ ApplyIdle
    /\ TrainerIdle
    /\ HeisenbergIdle
    /\ MetricIdle
    /\ SpinIdle
    /\ epc = "start"
    /\ xCaller \in Vectors
    /\ xGiven = xCaller
    /\ normalise \in BOOLEAN
    /\ exponents = <<>>
    /\ expOut = <<>>

notExp == <<samplerVars, runnerVars, windowVars, prepareVars, applyVars,
            trainerVars, heisenbergVars, metricVars, spinVars>>

\* the whole function
SafeExpCall ==
    /\ epc = "start"
    /\ exponents' = Shifted(xCaller)
    /\ expOut' = <<SafeExp(xCaller, normalise)>>
    /\ xCaller' = CallerTensorAfter(xCaller)
    /\ epc' = "returned"
    /\ UNCHANGED <<xGiven, normalise>>
    /\ UNCHANGED notExp

NextExp == SafeExpCall

SpecExp == InitExp /\ [][NextExp]_vars

Shifts == (0 - 2)..2

\* C23: for a non-empty x, safe_exp(x, normalise=True) sums to 1;
\* safe_exp(x + k) = safe_exp(x) for every constant k; exp is evaluated at
\* arguments <= 0 only, 0 among them; the caller's x is as it was.
C23_SafeExp ==
    epc = "returned" =>
        /\ normalise => SumSeq(expOut[1].num, Len(expOut[1].num)) = expOut[1].den
        /\ \A k \in Shifts :
            SafeExp([n \in 1..Len(xGiven) |-> xGiven[n] + k], normalise) = expOut[1]
        /\ \A n \in 1..Len(exponents) : exponents[n] <= 0
        /\ \E n \in 1..Len(exponents) : exponents[n] = 0
        /\ \A n \in 1..Len(xGiven) :
            expOut[1].num[n] * Pow2(Maximum(xGiven) - xGiven[n]) = Maximum(expOut[1].num)
        /\ xCaller = xGiven

C23_Witness ==
    /\ epc = "returned"
    /\ normalise
    /\ xGiven = <<2, 0 - 1, 1>>
    /\ expOut[1].den = 13

\* ---- _MeanVarMetric ------------------------------------------------------
MaxUpdates == 3

\* the values given to update (losses), small integers here
MetricValues == (0 - 1)..2

\* floats as fractions num / den with den > 0; float("nan") has den = 0
Q(num, den) == [num |-> num, den |-> den]
NaN == Q(0, 0)
QAdd(a, b) == Q(a.num * b.den + b.num * a.den, a.den * b.den)
QSub(a, b) == Q(a.num * b.den - b.num * a.den, a.den * b.den)
QMul(a, b) == Q(a.num * b.num, a.den * b.den)
QDivInt(a, n) == Q(a.num, a.den * n)
QEq(a, b) ==
    IF a.den = 0 \/ b.den = 0 THEN a.den = 0 /\ b.den = 0
    ELSE a.num * b.den = b.num * a.den

\* reset(): _n = 0, _mu = 0.0, _M2 = 0.0
ResetState ==
    /\ metric_n' = 0
    /\ metric_mu' = Q(0, 1)
    /\ metric_M2' = Q(0, 1)

InitMetric ==
    /\ SamplerStart
    /\ RunnerIdle
    /\ WindowIdle
    /\ PrepareIdle
    /\ ApplyIdle
    /\ TrainerIdle
    /\ HeisenbergIdle
    /\ ExpIdle
    /\ SpinIdle
    /\ mpc = "ready"
    /\ metric_n = 0
    /\ metric_mu = Q(0, 1)
    /\ metric_M2 = Q(0, 1)
    /\ updates = <<>>
    /\ computed = <<>>

notMetric == <<samplerVars, runnerVars, windowVars, prepareVars, applyVars,
               trainerVars, heisenbergVars, expVars, spinVars>>

\* update(output)
Update ==
    /\ Len(updates) < MaxUpdates
    /\ \E output \in MetricValues :
        LET delta == QSub(Q(output, 1), metric_mu)
            mu == QAdd(metric_mu, QDivInt(QSub(delta, metric_mu), metric_n + 1))
        IN  /\ metric_n' = metric_n + 1
            /\ metric_mu' = mu
            /\ metric_M2' = QAdd(metric_M2, QMul(QSub(Q(output, 1), mu), delta))
            /\ updates' = Append(updates, output)
    /\ mpc' = "ready"
    /\ computed' = <<>>
    /\ UNCHANGED notMetric

\* compute()
Compute ==
    /\ mpc = "ready"
    /\ computed' =
        IF metric_n = 0 THEN <<NaN, NaN, NaN>>
        ELSE IF metric_n = 1 THEN <<metric_mu, Q(0, 1), NaN>>
        ELSE <<metric_mu, QDivInt(metric_M2, metric_n), QDivInt(metric_M2, metric_n - 1)>>
    /\ mpc' = "computed"
    /\ UNCHANGED <<metric_n, metric_mu, metric_M2, updates>>
    /\ UNCHANGED notMetric

\* reset()
Reset ==
    /\ updates # <<>>
    /\ ResetState
    /\ updates' = <<>>
    /\ computed' = <<>>
    /\ mpc' = "ready"
    /\ UNCHANGED notMetric

NextMetric ==
    \/ Update
    \/ Compute
    \/ Reset

SpecMetric == InitMetric /\ [][NextMetric]_vars

\* sum of the squared distances of the updates from m, times m.den squared
RECURSIVE SquaresAround(_, _, _)
SquaresAround(v, n, m) ==
    IF n = 0 THEN 0
    ELSE (v[n] * m.den - m.num) * (v[n] * m.den - m.num) + SquaresAround(v, n - 1, m)

\* C24: compute returns (mean, population variance, sample variance) of the
\* values given to update since reset: all NaN for none, (v1, 0, NaN) for
\* one, and for n >= 2 the mean (v1 + ... + vn) / n with the two variances
\* around it.
C24_MeanVariance ==
    mpc = "computed" =>
        LET n == Len(updates)
            mean == Q(SumSeq(updates, n), n)
            squares == Q(SquaresAround(updates, n, mean), mean.den * mean.den)
        IN  IF n = 0 THEN computed = <<NaN, NaN, NaN>>
            ELSE IF n = 1
            THEN /\ QEq(computed[1], Q(updates[1], 1))
                 /\ QEq(computed[2], Q(0, 1))
                 /\ QEq(computed[3], NaN)
            ELSE /\ QEq(computed[1], mean)
                 /\ QEq(computed[2], QDivInt(squares, n))
                 /\ QEq(computed[3], QDivInt(squares, n - 1))

\* ---- _random_spin_configuration ------------------------------------------
MaxBits == 5

\* the arguments: n spins; hamming_weight None (<<>>) or an integer, one past
\* n included
SpinArguments ==
    {[n |-> n, hamming_weight |-> h] :
        n \in 1..MaxBits, h \in {<<>>} \cup {<<w>> : w \in 0..(MaxBits + 1)}}

\* int("".join(bits), base=2), the first bit being the most significant
RECURSIVE FromBits(_, _)
FromBits(bits, k) == IF k = 0 THEN 0 ELSE 2 * FromBits(bits, k - 1) + bits[k]

\* the orders np.random.shuffle can give to w ones and n - w zeros
Shuffles(n, w) == {b \in [1..n -> {0, 1}] : SumSeq(b, n) = w}

\* the values the function can return
Returnable(n, h) ==
    IF h # <<>>
    THEN {FromBits(b, n) : b \in Shuffles(n, h[1])}
    ELSE 0..Pow2(n - 1)

InitSpin ==
    /\ SamplerStart
    /\ RunnerIdle
    /\ WindowIdle
    /\ PrepareIdle
    /\ ApplyIdle
    /\ TrainerIdle
    /\ HeisenbergIdle
    /\ ExpIdle
    /\ MetricIdle
    /\ spc = "start"
    /\ \E a \in SpinArguments : spinArgs = <<a>>
    /\ support = {}
    /\ spin = <<>>
    /\ spinErr = NoError

notSpin == <<samplerVars, runnerVars, windowVars, prepareVars, applyVars,
             trainerVars, heisenbergVars, expVars, metricVars>>

\* the whole function
RandomSpinConfiguration ==
    /\ spc = "start"
    /\ LET n == spinArgs[1].n
           h == spinArgs[1].hamming_weight
       IN  IF h # <<>> /\ ~(0 <= h[1] /\ h[1] <= n)
           THEN /\ spc' = "raised"
                /\ spinErr' = Error("AssertionError", "invalid hamming weight")
                /\ UNCHANGED <<support, spin>>
           ELSE /\ support' = Returnable(n, h)
                /\ \E v \in Returnable(n, h) : spin' = <<v>>
                /\ spc' = "returned"
                /\ spinErr' = spinErr
    /\ UNCHANGED spinArgs
    /\ UNCHANGED notSpin

NextSpin == RandomSpinConfiguration

SpecSpin == InitSpin /\ [][NextSpin]_vars

\* the number of bits set among the k low bits of v
RECURSIVE BitsSet(_, _)
BitsSet(v, k) == IF k = 0 THEN 0 ELSE (v % 2) + BitsSet(v \div 2, k - 1)

\* C27: the result is an integer in [0, 2^n - 1]; with hamming_weight None
\* every integer of that range can be returned; with hamming_weight w the
\* result has exactly w of its n low bits set.
C27_RandomSpin ==
    spc = "returned" =>
        LET n == spinArgs[1].n
            h == spinArgs[1].hamming_weight
        IN  /\ spin[1] \in 0..(Pow2(n) - 1)
            /\ h = <<>> => support = 0..(Pow2(n) - 1)
            /\ h # <<>> => BitsSet(spin[1], n) = h[1]
====
